---- MODULE Spec2Model ----
(***************************************************************************)
(* Model of the PWM LED driver of Project_DD/leds (1).c: two debounced     *)
(* push-button interrupts, the brightness state machine run as the work    *)
(* item led_level_work, the software PWM run as the self-resubmitting work *)
(* item led_switch_work, and module init / exit.                           *)
(*                                                                         *)
(* Times are struct timespec64 values [tv_sec, tv_nsec].  A work item is   *)
(* [pending, canceling, pc]: the PENDING bit, the mark cancel_work_sync    *)
(* holds while it waits, and the position of the one worker that may run   *)
(* the item's function at a time.                                          *)
(***************************************************************************)
EXTENDS Integers, Sequences, FiniteSets, TLC

\* ---------------------------------------------------------------- constants

BUTTON_DEBOUNCE == 200
LED_MIN_LEVEL == 0
LED_MAX_LEVEL_DEFAULT == 5
PULSE_FREQUENCY_DEFAULT == 100000
LOW == 0
HIGH == 1
MSEC_PER_SEC == 1000
USEC_PER_SEC == 1000000
NSEC_PER_MSEC == 1000000
NSEC_PER_SEC == 1000000000
EINVAL == 22
EBUSY == 16
INT_MAX == 2147483647
INT_MIN == (-INT_MAX) - 1

\* enum event, enum led_state
Events == {"NONE", "UP", "DOWN"}
States == {"OFF", "ON", "MAX"}
Lines == {"down", "up"}

\* ------------------------------------------------------------------- bounds

\* largest value of the led_max_level parameter explored by Spec and SpecRun
MaxLevelBound == 2
\* number of clock steps of WindowNs explored by Spec
MaxTicks == 2
\* number of clock steps of TickNs explored by SpecRun
MaxRunTicks == 6
\* number of clock steps of PwmTickNs explored by SpecPwm
MaxPwmTicks == 6

\* one clock step of Spec: a whole debounce window
WindowNs == BUTTON_DEBOUNCE * NSEC_PER_MSEC
\* one clock step of SpecRun: 100 ms, half a debounce window
TickNs == (BUTTON_DEBOUNCE \div 2) * NSEC_PER_MSEC
\* one clock step of SpecPwm: 20 us, a fifth of the default period
PwmTickNs == PULSE_FREQUENCY_DEFAULT \div 5

\* ---------------------------------------------------------------- int, time

\* int addition with two's-complement wrap-around (the kernel is built with
\* -fno-strict-overflow), computed without leaving the 32-bit range
AddInt32(a, b) ==
    IF a >= 0 /\ b > INT_MAX - a
      THEN (a - INT_MAX - 1) + (b - INT_MAX - 1)
      ELSE IF a < 0 /\ b < INT_MIN - a
             THEN (a + INT_MAX + 1) + (b + INT_MAX + 1)
             ELSE a + b

\* int multiplication a * n (n >= 0) with wrap-around, by double-and-add
RECURSIVE MulInt32(_, _)
MulInt32(a, n) ==
    IF n = 0 THEN 0
    ELSE LET h == MulInt32(a, n \div 2)
             d == AddInt32(h, h)
         IN  IF n % 2 = 1 THEN AddInt32(d, a) ELSE d

\* C integer division by a positive divisor: truncation toward zero
CDiv(a, b) == IF a >= 0 THEN a \div b ELSE (a + b - 1) \div b

Timespec(s, n) == [tv_sec |-> s, tv_nsec |-> n]
ZeroTs == Timespec(0, 0)
\* wall-clock time at which the module is loaded (the clock then crosses a
\* second boundary within two steps)
BootTs == Timespec(5, 9 * TickNs)

\* set_normalized_timespec64: tv_nsec brought back into [0, NSEC_PER_SEC)
set_normalized_timespec64(s, n) ==
    IF n >= NSEC_PER_SEC THEN Timespec(s + 1, n - NSEC_PER_SEC)
    ELSE IF n < 0 THEN Timespec(s - 1, n + NSEC_PER_SEC)
    ELSE Timespec(s, n)

timespec64_sub(lhs, rhs) ==
    set_normalized_timespec64(lhs.tv_sec - rhs.tv_sec, lhs.tv_nsec - rhs.tv_nsec)

timespec64_add_ns(ts, ns) == set_normalized_timespec64(ts.tv_sec, ts.tv_nsec + ns)

\* t1 is not before t2
TsGeq(t1, t2) ==
    \/ t1.tv_sec > t2.tv_sec
    \/ t1.tv_sec = t2.tv_sec /\ t1.tv_nsec >= t2.tv_nsec

\* -------------------------------------------------------------------- state

VARIABLES
    pc,                    \* position of the thread in pwm_led_init / pwm_led_exit
    ret,                   \* ret of pwm_led_init
    led_max_level,         \* module parameter
    pulse_frequency,       \* module parameter
    gpios,                 \* GPIO lines requested and not freed
    irqs,                  \* button lines whose interrupt is registered
    led_gpio_value,        \* value of the LED output line
    now,                   \* the real-time clock
    prev_down_button_irq,
    prev_up_button_irq,
    prev_led_switch,
    led_level,
    led_state,
    led_event,
    led_level_work,
    led_switch_work,
    irq_pc,                \* per line: position of button_irq_handler
    lvl,                   \* the running led_level_func pass: what it read and
                           \* called, and whether it started after a new edge
    last_accept,           \* history: per line, when its clock was last set
    last_event,            \* history: the event of the last accepted edge
    fresh,                 \* history: an edge was accepted since a pass last
                           \* started
    run,                   \* history: the current run of serially processed edges
    owed                   \* history, kept where owed.on: per event, the edges
                           \* accepted with it less the passes that looked it
                           \* up; and what became of the last edge handled

cfg_vars == <<led_max_level, pulse_frequency>>
res_vars == <<gpios, irqs>>
clk_vars == <<prev_down_button_irq, prev_up_button_irq, prev_led_switch>>
fsm_vars == <<led_level, led_state, led_event>>
hist_vars == <<last_accept, last_event, fresh, run, owed>>

vars == <<pc, ret, cfg_vars, res_vars, led_gpio_value, now, clk_vars, fsm_vars,
          led_level_work, led_switch_work, irq_pc, lvl, hist_vars>>

IdleWork == [pending |-> FALSE, canceling |-> FALSE, pc |-> "idle"]
NoLvl == [state |-> "OFF", event |-> "NONE", fn |-> "none", fresh |-> FALSE,
          latest |-> "NONE"]
NoAccept == [valid |-> FALSE, ts |-> ZeroTs]
\* level 0, state Off and no edge yet: a run of zero serial Increase events
NoneOwed == [on |-> TRUE, UP |-> 0, DOWN |-> 0, verdict |-> "none"]
NotCounted == [on |-> FALSE, UP |-> 0, DOWN |-> 0, verdict |-> "none"]
NoRun == [kind |-> "up", n |-> 0, p |-> 0]
BrokenRun == [kind |-> "none", n |-> 0, p |-> 0]

Init ==
    /\ pc = "validate"
    /\ ret = 0
    /\ led_max_level \in -1 .. MaxLevelBound
    /\ pulse_frequency = PULSE_FREQUENCY_DEFAULT
    /\ gpios = {}
    /\ irqs = {}
    /\ led_gpio_value = LOW
    /\ now = BootTs
    /\ prev_down_button_irq = ZeroTs
    /\ prev_up_button_irq = ZeroTs
    /\ prev_led_switch = ZeroTs
    /\ led_level = LED_MIN_LEVEL
    /\ led_state = "OFF"
    /\ led_event = "NONE"
    /\ led_level_work = IdleWork
    /\ led_switch_work = IdleWork
    /\ irq_pc = [l \in Lines |-> "idle"]
    /\ lvl = NoLvl
    /\ last_accept = [l \in Lines |-> NoAccept]
    /\ last_event = "NONE"
    /\ owed = NotCounted
    /\ fresh = FALSE
    /\ run = NoRun

\* ---------------------------------------------------------------- workqueue

\* faulty variant: a request made while cancel_work_sync waits is queued all the same
schedule_work_while_canceling(w) ==
    IF w.pending THEN w ELSE [w EXCEPT !.pending = TRUE]

\* schedule_work: sets PENDING unless it is set already; while
\* cancel_work_sync owns the item the request is refused
schedule_work(w) ==
    IF w.pending \/ w.canceling THEN w ELSE [w EXCEPT !.pending = TRUE]

\* cancel_work_sync, first half: take the PENDING bit away and mark the item
\* as being cancelled, so that it cannot be queued again
cancel_grab(w) == [w EXCEPT !.pending = FALSE, !.canceling = TRUE]

\* cancel_work_sync, second half: the running execution has finished
cancel_done(w) == [w EXCEPT !.canceling = FALSE]

\* a worker takes the item off the queue: PENDING is cleared before the
\* function runs, and the same item never runs on two workers at once
CanStart(w) == w.pending /\ w.pc = "idle"

\* ------------------------------------------------------------- pwm_led_init

\* validate_led_max_level
validate_led_max_level(m) == IF m < LED_MIN_LEVEL THEN LED_MIN_LEVEL ELSE m

\* results of setup_pwm_led_gpio: 0, -EINVAL (gpio_is_valid fails) or the
\* error of gpio_request
GpioResults == {0, -EINVAL, -EBUSY}

\* results of setup_pwm_led_irq: 0, the error of gpio_to_irq or of request_irq
IrqResults == {0, -EINVAL, -EBUSY}

\* the lines held when setup_pwm_led_gpios returns an error: it returns at
\* once and pwm_led_init jumps to out, past unset_pwm_led_gpios
gpios_after_gpio_error(held) == held

\* unset_pwm_led_gpios: gpio_free of the three lines
unset_pwm_led_gpios(held) == held \ {"down", "up", "led"}

Validate ==
    /\ pc = "validate"
    /\ led_max_level' = validate_led_max_level(led_max_level)
    /\ pc' = "gpio_down"
    /\ UNCHANGED <<ret, pulse_frequency, res_vars, led_gpio_value, now, clk_vars,
                   fsm_vars, led_level_work, led_switch_work, irq_pc, lvl,
                   hist_vars>>

\* setup_pwm_led_gpio for one line, inside setup_pwm_led_gpios
SetupGpio(g, next) ==
    /\ pc = "gpio_" \o g
    /\ \E r \in GpioResults :
         /\ ret' = r
         /\ IF r = 0
              THEN /\ gpios' = gpios \cup {g}
                   /\ pc' = next
              ELSE /\ gpios' = gpios_after_gpio_error(gpios)
                   /\ pc' = "failed"
    \* gpio_direction_output(gpio, LOW) for the LED line
    /\ led_gpio_value' = IF g = "led" /\ ret' = 0 THEN LOW ELSE led_gpio_value
    /\ UNCHANGED <<cfg_vars, irqs, now, clk_vars, fsm_vars, led_level_work,
                   led_switch_work, irq_pc, lvl, hist_vars>>

\* setup_pwm_led_irq for one button, inside setup_pwm_led_irqs
SetupIrq(l, next, undo) ==
    /\ pc = "irq_" \o l
    /\ \E r \in IrqResults :
         /\ ret' = r
         /\ IF r = 0
              THEN /\ irqs' = irqs \cup {l}
                   /\ pc' = next
              ELSE /\ irqs' = irqs
                   /\ pc' = undo
    /\ UNCHANGED <<cfg_vars, gpios, led_gpio_value, now, clk_vars, fsm_vars,
                   led_level_work, led_switch_work, irq_pc, lvl, hist_vars>>

\* free_irq waits for a running handler of that interrupt to return
FreeIrq(at, l, next) ==
    /\ pc = at
    /\ irq_pc[l] = "idle"
    /\ irqs' = irqs \ {l}
    /\ pc' = next
    /\ UNCHANGED <<ret, cfg_vars, gpios, led_gpio_value, now, clk_vars, fsm_vars,
                   led_level_work, led_switch_work, irq_pc, lvl, hist_vars>>

\* unset_pwm_led_gpios, at irq_err and in pwm_led_exit
UnsetGpios(at, next) ==
    /\ pc = at
    /\ gpios' = unset_pwm_led_gpios(gpios)
    /\ pc' = next
    /\ UNCHANGED <<ret, cfg_vars, irqs, led_gpio_value, now, clk_vars, fsm_vars,
                   led_level_work, led_switch_work, irq_pc, lvl, hist_vars>>

\* ktime_get_real_ts64(&prev_down_button_irq)
ClockDown ==
    /\ pc = "clock_down"
    /\ prev_down_button_irq' = now
    /\ last_accept' = [last_accept EXCEPT !["down"] = [valid |-> TRUE, ts |-> now]]
    /\ pc' = "clock_up"
    /\ UNCHANGED <<ret, cfg_vars, res_vars, led_gpio_value, now, prev_up_button_irq,
                   prev_led_switch, fsm_vars, led_level_work, led_switch_work,
                   irq_pc, lvl, last_event, fresh, run, owed>>

\* ktime_get_real_ts64(&prev_up_button_irq)
ClockUp ==
    /\ pc = "clock_up"
    /\ prev_up_button_irq' = now
    /\ last_accept' = [last_accept EXCEPT !["up"] = [valid |-> TRUE, ts |-> now]]
    /\ pc' = "clock_led"
    /\ UNCHANGED <<ret, cfg_vars, res_vars, led_gpio_value, now,
                   prev_down_button_irq, prev_led_switch, fsm_vars, led_level_work,
                   led_switch_work, irq_pc, lvl, last_event, fresh, run, owed>>

\* ktime_get_real_ts64(&prev_led_switch)
ClockLed ==
    /\ pc = "clock_led"
    /\ prev_led_switch' = now
    /\ pc' = "start_pwm"
    /\ UNCHANGED <<ret, cfg_vars, res_vars, led_gpio_value, now,
                   prev_down_button_irq, prev_up_button_irq, fsm_vars,
                   led_level_work, led_switch_work, irq_pc, lvl, hist_vars>>

\* schedule_work(&led_switch_work), then return ret
StartPwm ==
    /\ pc = "start_pwm"
    /\ led_switch_work' = schedule_work(led_switch_work)
    /\ pc' = "loaded"
    /\ UNCHANGED <<ret, cfg_vars, res_vars, led_gpio_value, now, clk_vars, fsm_vars,
                   led_level_work, irq_pc, lvl, hist_vars>>

pwm_led_init ==
    \/ Validate
    \/ SetupGpio("down", "gpio_up")
    \/ SetupGpio("up", "gpio_led")
    \/ SetupGpio("led", "irq_down")
    \/ SetupIrq("down", "irq_up", "irq_err")
    \/ SetupIrq("up", "clock_down", "irq_up_undo")
    \/ FreeIrq("irq_up_undo", "down", "irq_err")
    \/ UnsetGpios("irq_err", "failed")
    \/ ClockDown
    \/ ClockUp
    \/ ClockLed
    \/ StartPwm

\* ------------------------------------------------------------- pwm_led_exit

\* cancel_work_sync(&led_level_work): the item is taken off the queue ...
CancelLevelGrab ==
    /\ pc = "loaded"
    /\ led_level_work' = cancel_grab(led_level_work)
    /\ pc' = "wait_level"
    /\ UNCHANGED <<ret, cfg_vars, res_vars, led_gpio_value, now, clk_vars, fsm_vars,
                   led_switch_work, irq_pc, lvl, hist_vars>>

\* ... and its running execution is waited for
CancelLevelDone ==
    /\ pc = "wait_level"
    /\ led_level_work.pc = "idle"
    /\ led_level_work' = cancel_done(led_level_work)
    /\ pc' = "cancel_switch"
    /\ UNCHANGED <<ret, cfg_vars, res_vars, led_gpio_value, now, clk_vars, fsm_vars,
                   led_switch_work, irq_pc, lvl, hist_vars>>

\* cancel_work_sync(&led_switch_work)
CancelSwitchGrab ==
    /\ pc = "cancel_switch"
    /\ led_switch_work' = cancel_grab(led_switch_work)
    /\ pc' = "wait_switch"
    /\ UNCHANGED <<ret, cfg_vars, res_vars, led_gpio_value, now, clk_vars, fsm_vars,
                   led_level_work, irq_pc, lvl, hist_vars>>

CancelSwitchDone ==
    /\ pc = "wait_switch"
    /\ led_switch_work.pc = "idle"
    /\ led_switch_work' = cancel_done(led_switch_work)
    /\ pc' = "free_down"
    /\ UNCHANGED <<ret, cfg_vars, res_vars, led_gpio_value, now, clk_vars, fsm_vars,
                   led_level_work, irq_pc, lvl, hist_vars>>

pwm_led_exit ==
    \/ CancelLevelGrab
    \/ CancelLevelDone
    \/ CancelSwitchGrab
    \/ CancelSwitchDone
    \/ FreeIrq("free_down", "down", "free_up")
    \/ FreeIrq("free_up", "up", "unset")
    \/ UnsetGpios("unset", "unloaded")

\* ------------------------------------------------------- button_irq_handler

line_event(l) == IF l = "down" THEN "DOWN" ELSE "UP"

\* the widths of long: 32 bits on an ILP32 build (32-bit ARM), 64 on LP64
LongWidths == {32, 64}

\* sec * MSEC_PER_SEC + ms in a long of 64 bits, which holds it for every
\* interval; a value beyond the integers of the model is represented by the
\* nearest one, which no comparison with BUTTON_DEBOUNCE can tell apart
MillisLong64(sec, ms) ==
    IF sec >= INT_MAX \div MSEC_PER_SEC THEN INT_MAX
    ELSE IF sec <= -(INT_MAX \div MSEC_PER_SEC) THEN INT_MIN
    ELSE (sec * MSEC_PER_SEC) + ms

\* millis_since_last_irq = ((long)interval.tv_sec * MSEC_PER_SEC) +
\* (interval.tv_nsec / NSEC_PER_MSEC), in a long of w bits (now is never
\* before prev, so interval.tv_sec >= 0)
millis_since_last_irq(nw, prev, w) ==
    LET interval == timespec64_sub(nw, prev)
        ms == interval.tv_nsec \div NSEC_PER_MSEC
    IN  IF w = 32
          THEN AddInt32(MulInt32(MSEC_PER_SEC, interval.tv_sec), ms)
          ELSE MillisLong64(interval.tv_sec, ms)

\* if (millis_since_last_irq < BUTTON_DEBOUNCE) return IRQ_HANDLED;
debounce_rejects(millis) == millis < BUTTON_DEBOUNCE

\* led_event = DOWN / led_event = UP: the slot is overwritten
store_event(old, new) == new

\* the state machine is at rest when line l accepts an edge: nothing queued,
\* nothing running, and no other handler between its store and its
\* schedule_work
Quiet(l) ==
    /\ led_level_work.pc = "idle"
    /\ ~led_level_work.pending
    /\ \A m \in Lines \ {l} : irq_pc[m] # "sched"

\* history: the run of serially processed edges after line l accepts one
RunAfterAccept(l) ==
    LET k == IF line_event(l) = "UP" THEN "up" ELSE "down"
        atStart == IF k = "up"
                     THEN led_level = LED_MIN_LEVEL /\ led_state = "OFF"
                     ELSE led_level = led_max_level /\ led_state = "MAX"
    IN  IF ~Quiet(l) THEN BrokenRun
        ELSE IF run.kind = k /\ run.p = run.n THEN [run EXCEPT !.n = @ + 1]
        ELSE IF atStart THEN [kind |-> k, n |-> 1, p |-> 0]
        ELSE BrokenRun

\* the debounce test of line l at the time the handler reads the clock, on
\* a build whose long has w bits
EdgeRejected(l, w) ==
    LET prev == IF l = "down" THEN prev_down_button_irq ELSE prev_up_button_irq
    IN  debounce_rejects(millis_since_last_irq(now, prev, w))

\* some build takes the early return for an edge on line l now
MayReject(l) == \E w \in LongWidths : EdgeRejected(l, w)

\* some build goes on to store the edge on line l now
MayAccept(l) == \E w \in LongWidths : ~EdgeRejected(l, w)

\* history: the last edge handled was rejected
owed_after_reject(o) == IF o.on THEN [o EXCEPT !.verdict = "rejected"] ELSE o

\* faulty variant: the early return is missing, a rejected edge goes on to
\* schedule_work
IrqRejectSchedules(l) ==
    /\ l \in irqs
    /\ irq_pc[l] = "idle"
    /\ MayReject(l)
    /\ led_level_work' = schedule_work(led_level_work)
    /\ owed' = owed_after_reject(owed)
    /\ UNCHANGED <<pc, ret, cfg_vars, res_vars, led_gpio_value, now, clk_vars,
                   fsm_vars, led_switch_work, irq_pc, lvl, last_accept,
                   last_event, fresh, run>>

\* an edge on a registered line is dropped: return IRQ_HANDLED and no more
IrqReject(l) ==
    /\ l \in irqs
    /\ irq_pc[l] = "idle"
    /\ MayReject(l)
    /\ owed' = owed_after_reject(owed)
    /\ UNCHANGED <<pc, ret, cfg_vars, res_vars, led_gpio_value, now, clk_vars,
                   fsm_vars, led_level_work, led_switch_work, irq_pc, lvl,
                   last_accept, last_event, fresh, run>>

\* faulty variant: one clock serves both lines, an accepted edge sets both
IrqAcceptSharedClock(l) ==
    /\ l \in irqs
    /\ irq_pc[l] = "idle"
    /\ MayAccept(l)
    /\ irq_pc' = [irq_pc EXCEPT ![l] = "sched"]
    /\ prev_down_button_irq' = now
    /\ prev_up_button_irq' = now
    /\ led_event' = store_event(led_event, line_event(l))
    /\ last_accept' = [last_accept EXCEPT ![l] = [valid |-> TRUE, ts |-> now]]
    /\ last_event' = line_event(l)
    /\ run' = RunAfterAccept(l)
    /\ fresh' = TRUE
    /\ owed' = owed
    /\ UNCHANGED <<pc, ret, cfg_vars, res_vars, led_gpio_value, now,
                   prev_led_switch, led_level, led_state, led_level_work,
                   led_switch_work, lvl>>

\* an edge on a registered line is accepted: the line's clock and led_event
\* are stored; schedule_work is still to come
IrqAccept(l) ==
    /\ l \in irqs
    /\ irq_pc[l] = "idle"
    /\ MayAccept(l)
    /\ irq_pc' = [irq_pc EXCEPT ![l] = "sched"]
    /\ prev_down_button_irq' = IF l = "down" THEN now ELSE prev_down_button_irq
    /\ prev_up_button_irq' = IF l = "up" THEN now ELSE prev_up_button_irq
    /\ led_event' = store_event(led_event, line_event(l))
    /\ last_accept' = [last_accept EXCEPT ![l] = [valid |-> TRUE, ts |-> now]]
    /\ last_event' = line_event(l)
    /\ run' = RunAfterAccept(l)
    /\ fresh' = TRUE
    /\ owed' = IF owed.on
                 THEN [owed EXCEPT ![line_event(l)] = @ + 1,
                                   !.verdict = "accepted"]
                 ELSE owed
    /\ UNCHANGED <<pc, ret, cfg_vars, res_vars, led_gpio_value, now,
                   prev_led_switch, led_level, led_state, led_level_work,
                   led_switch_work, lvl>>

\* schedule_work(&led_level_work); return IRQ_HANDLED;
IrqSched(l) ==
    /\ irq_pc[l] = "sched"
    /\ led_level_work' = schedule_work(led_level_work)
    /\ irq_pc' = [irq_pc EXCEPT ![l] = "idle"]
    /\ UNCHANGED <<pc, ret, cfg_vars, res_vars, led_gpio_value, now, clk_vars,
                   fsm_vars, led_switch_work, lvl, hist_vars>>

button_irq_handler ==
    \E l \in Lines : IrqReject(l) \/ IrqAccept(l) \/ IrqSched(l)

\* ----------------------------------------------------------- led_level_func

\* faulty variant: the row of OFF is a copy of the row of ON
fsm_functions_off_as_on(st, ev) ==
    CASE ev = "NONE" -> "do_nothing"
      [] ev = "UP" -> IF st = "MAX" THEN "do_nothing"
                      ELSE "increase_led_brightness"
      [] ev = "DOWN" -> "decrease_led_brightness"

\* faulty variant: the row of MAX is a copy of the row of ON
fsm_functions_max_as_on(st, ev) ==
    CASE ev = "NONE" -> "do_nothing"
      [] ev = "UP" -> "increase_led_brightness"
      [] ev = "DOWN" -> IF st = "OFF" THEN "do_nothing"
                        ELSE "decrease_led_brightness"

\* fsm_functions[led_state][led_event]
fsm_functions(st, ev) ==
    CASE st = "OFF" /\ ev = "NONE" -> "do_nothing"
      [] st = "OFF" /\ ev = "UP"   -> "increase_led_brightness"
      [] st = "OFF" /\ ev = "DOWN" -> "do_nothing"
      [] st = "ON"  /\ ev = "NONE" -> "do_nothing"
      [] st = "ON"  /\ ev = "UP"   -> "increase_led_brightness"
      [] st = "ON"  /\ ev = "DOWN" -> "decrease_led_brightness"
      [] st = "MAX" /\ ev = "NONE" -> "do_nothing"
      [] st = "MAX" /\ ev = "UP"   -> "do_nothing"
      [] st = "MAX" /\ ev = "DOWN" -> "decrease_led_brightness"

\* increase_led_brightness, decrease_led_brightness, do_nothing
apply_fn(fn, level) ==
    CASE fn = "increase_led_brightness" -> AddInt32(level, 1)
      [] fn = "decrease_led_brightness" -> AddInt32(level, -1)
      [] OTHER -> level

\* faulty variant: every level above the minimum is taken for the maximum
update_led_state_no_on(level, max) ==
    IF level = LED_MIN_LEVEL THEN "OFF" ELSE "MAX"

\* faulty variant: MAX is recognised one level late
update_led_state_late(level, max) ==
    IF level = LED_MIN_LEVEL THEN "OFF"
    ELSE IF level = max + 1 THEN "MAX"
    ELSE "ON"

\* update_led_state
update_led_state(level, max) ==
    IF level = LED_MIN_LEVEL THEN "OFF"
    ELSE IF level = max THEN "MAX"
    ELSE "ON"

\* a worker starts led_level_func
LevelStart ==
    /\ CanStart(led_level_work)
    /\ led_level_work' = [led_level_work EXCEPT !.pending = FALSE, !.pc = "dispatch"]
    /\ lvl' = [NoLvl EXCEPT !.fresh = fresh]
    /\ fresh' = FALSE
    /\ run' = IF run.kind # "none" /\ run.p < run.n
                THEN [run EXCEPT !.p = @ + 1]
                ELSE BrokenRun
    /\ UNCHANGED <<pc, ret, cfg_vars, res_vars, led_gpio_value, now, clk_vars,
                   fsm_vars, led_switch_work, irq_pc, last_accept, last_event,
                   owed>>

\* fsm_functions[led_state][led_event]();
LevelDispatch ==
    /\ led_level_work.pc = "dispatch"
    /\ LET fn == fsm_functions(led_state, led_event)
       IN  /\ lvl' = [lvl EXCEPT !.state = led_state, !.event = led_event,
                                 !.fn = fn, !.latest = last_event]
           /\ led_level' = apply_fn(fn, led_level)
    /\ led_level_work' = [led_level_work EXCEPT !.pc = "update"]
    /\ owed' = IF owed.on /\ led_event # "NONE"
                 THEN [owed EXCEPT ![led_event] = @ - 1]
                 ELSE owed
    /\ UNCHANGED <<pc, ret, cfg_vars, res_vars, led_gpio_value, now, clk_vars,
                   led_state, led_event, led_switch_work, irq_pc, last_accept,
                   last_event, fresh, run>>

\* update_led_state(); led_brightness_percent = 100 * level / led_max_level;
\* pr_info(...); return
LevelUpdate ==
    /\ led_level_work.pc = "update"
    /\ led_state' = update_led_state(led_level, led_max_level)
    /\ led_level_work' = [led_level_work EXCEPT !.pc = "idle"]
    /\ lvl' = NoLvl
    /\ UNCHANGED <<pc, ret, cfg_vars, res_vars, led_gpio_value, now, clk_vars,
                   led_level, led_event, led_switch_work, irq_pc, hist_vars>>

\* with led_max_level = 0 the division of the percentage traps (x86): the
\* worker dies inside the function, after update_led_state
LevelTrap ==
    /\ led_level_work.pc = "update"
    /\ led_max_level = 0
    /\ led_state' = update_led_state(led_level, led_max_level)
    /\ led_level_work' = [led_level_work EXCEPT !.pc = "oops"]
    /\ UNCHANGED <<pc, ret, cfg_vars, res_vars, led_gpio_value, now, clk_vars,
                   led_level, led_event, led_switch_work, irq_pc, lvl, hist_vars>>

led_level_func == LevelStart \/ LevelDispatch \/ LevelUpdate

\* ------------------------------------------------------------ led_ctrl_func

\* nanos_since_led_switch = (diff.tv_sec * USEC_PER_SEC) + diff.tv_nsec, as
\* stored in an int
nanos_since_led_switch(nw, prev) ==
    LET diff == timespec64_sub(nw, prev)
    IN  AddInt32(MulInt32(USEC_PER_SEC, diff.tv_sec), diff.tv_nsec)

\* pulse_frequency * level / led_max_level in int arithmetic; a division by
\* zero that does not trap yields 0
scaled_period(period, level, max) ==
    IF max = 0 THEN 0 ELSE CDiv(MulInt32(period, level), max)

\* required_delay for the value the output has now
required_delay(gpio_value, period, level, max) ==
    IF gpio_value = LOW
      THEN AddInt32(period, -scaled_period(period, level, max))
      ELSE scaled_period(period, level, max)

\* level == LED_MIN_LEVEL || level == led_max_level
at_boundary(level, max) == level = LED_MIN_LEVEL \/ level = max

\* faulty variant: the two values of the ternary are swapped
boundary_value_swapped(level) == IF level = LED_MIN_LEVEL THEN HIGH ELSE LOW

\* the value gpio_set_value writes at a boundary level
boundary_value(level) == IF level = LED_MIN_LEVEL THEN LOW ELSE HIGH

\* if (nanos_since_led_switch >= required_delay)
dwell_over(nanos, delay) == nanos >= delay

\* a worker starts led_ctrl_func
CtrlStart ==
    /\ CanStart(led_switch_work)
    /\ led_switch_work' = [led_switch_work EXCEPT !.pending = FALSE, !.pc = "run"]
    /\ UNCHANGED <<pc, ret, cfg_vars, res_vars, led_gpio_value, now, clk_vars,
                   fsm_vars, led_level_work, irq_pc, lvl, hist_vars>>

\* one iteration of led_ctrl_func, up to and including schedule_work(work)
CtrlRun ==
    /\ led_switch_work.pc = "run"
    /\ LET level == led_level
           nanos == nanos_since_led_switch(now, prev_led_switch)
           delay == required_delay(led_gpio_value, pulse_frequency, level,
                                   led_max_level)
       IN  IF at_boundary(level, led_max_level)
             THEN /\ led_gpio_value' = boundary_value(level)
                  /\ prev_led_switch' = prev_led_switch
             ELSE IF dwell_over(nanos, delay)
                    THEN /\ led_gpio_value' = 1 - led_gpio_value
                         /\ prev_led_switch' = now
                    ELSE /\ led_gpio_value' = led_gpio_value
                         /\ prev_led_switch' = prev_led_switch
    /\ led_switch_work' = schedule_work([led_switch_work EXCEPT !.pc = "idle"])
    /\ UNCHANGED <<pc, ret, cfg_vars, res_vars, now, prev_down_button_irq,
                   prev_up_button_irq, fsm_vars, led_level_work, irq_pc, lvl,
                   hist_vars>>

\* with led_max_level = 0 and a level other than 0 the division in
\* required_delay traps (x86): the worker dies inside the function
CtrlTrap ==
    /\ led_switch_work.pc = "run"
    /\ led_max_level = 0
    /\ ~at_boundary(led_level, led_max_level)
    /\ led_switch_work' = [led_switch_work EXCEPT !.pc = "oops"]
    /\ UNCHANGED <<pc, ret, cfg_vars, res_vars, led_gpio_value, now, clk_vars,
                   fsm_vars, led_level_work, irq_pc, lvl, hist_vars>>

led_ctrl_func == CtrlStart \/ CtrlRun

\* -------------------------------------------------------------------- clock

RECURSIVE TsAfter(_, _, _)
TsAfter(ts, step, n) ==
    IF n = 0 THEN ts ELSE TsAfter(timespec64_add_ns(ts, step), step, n - 1)

\* the clock advances by one step.  It is read only while an interrupt is
\* registered (by the handlers, by pwm_led_init after them and by the PWM
\* task), and an interrupt handler returns well within a step
Tick ==
    /\ irqs # {}
    /\ \A l \in Lines : irq_pc[l] = "idle"
    /\ ~TsGeq(now, TsAfter(BootTs, WindowNs, MaxTicks))
    /\ now' = timespec64_add_ns(now, WindowNs)
    /\ UNCHANGED <<pc, ret, cfg_vars, res_vars, led_gpio_value, clk_vars, fsm_vars,
                   led_level_work, led_switch_work, irq_pc, lvl, hist_vars>>

\* ------------------------------------------------------------ specification

Next ==
    \/ pwm_led_init
    \/ pwm_led_exit
    \/ button_irq_handler
    \/ led_level_func
    \/ LevelTrap
    \/ led_ctrl_func
    \/ CtrlTrap
    \/ Tick

Spec == Init /\ [][Next]_vars

TypeOK ==
    /\ led_max_level \in Int
    /\ led_level \in Int
    /\ gpios \subseteq {"down", "up", "led"}
    /\ irqs \subseteq Lines
    /\ led_gpio_value \in {LOW, HIGH}
    /\ led_state \in States
    /\ led_event \in Events
    /\ led_level_work.pc \in {"idle", "dispatch", "update", "oops"}
    /\ led_switch_work.pc \in {"idle", "run", "oops"}
    /\ \A l \in Lines : irq_pc[l] \in {"idle", "sched"}

\* ------------------------------------------------- the loaded module alone

\* the state pwm_led_init leaves when every step succeeds and no edge
\* arrives before it returns
InitLoaded ==
    /\ pc = "loaded"
    /\ ret = 0
    /\ led_max_level \in 0 .. MaxLevelBound
    /\ pulse_frequency = PULSE_FREQUENCY_DEFAULT
    /\ gpios = {"down", "up", "led"}
    /\ irqs = Lines
    /\ led_gpio_value = LOW
    /\ now = BootTs
    /\ prev_down_button_irq = BootTs
    /\ prev_up_button_irq = BootTs
    /\ prev_led_switch = BootTs
    /\ led_level = LED_MIN_LEVEL
    /\ led_state = "OFF"
    /\ led_event = "NONE"
    /\ led_level_work = IdleWork
    /\ led_switch_work = schedule_work(IdleWork)
    /\ irq_pc = [l \in Lines |-> "idle"]
    /\ lvl = NoLvl
    /\ last_accept = [l \in Lines |-> [valid |-> TRUE, ts |-> BootTs]]
    /\ last_event = "NONE"
    /\ owed = NotCounted
    /\ fresh = FALSE
    /\ run = NoRun

TickRun ==
    /\ \A l \in Lines : irq_pc[l] = "idle"
    /\ ~TsGeq(now, TsAfter(BootTs, TickNs, MaxRunTicks))
    /\ now' = timespec64_add_ns(now, TickNs)
    /\ UNCHANGED <<pc, ret, cfg_vars, res_vars, led_gpio_value, clk_vars, fsm_vars,
                   led_level_work, led_switch_work, irq_pc, lvl, hist_vars>>

NextRun ==
    \/ button_irq_handler
    \/ led_level_func
    \/ LevelTrap
    \/ led_ctrl_func
    \/ CtrlTrap
    \/ TickRun

SpecRun == InitLoaded /\ [][NextRun]_vars

\* ------------------------------------- the buttons after a long idle time

\* the shortest idle time whose milliseconds a long of 32 bits cannot hold:
\* 2147484 s, a little under 25 days
IdleSec == (INT_MAX \div MSEC_PER_SEC) + 1

\* the buttons are left alone for IdleSec seconds
TickIdle ==
    /\ \A l \in Lines : irq_pc[l] = "idle"
    /\ now.tv_sec < BootTs.tv_sec + IdleSec
    /\ now' = Timespec(now.tv_sec + IdleSec, now.tv_nsec)
    /\ UNCHANGED <<pc, ret, cfg_vars, res_vars, led_gpio_value, clk_vars, fsm_vars,
                   led_level_work, led_switch_work, irq_pc, lvl, hist_vars>>

\* the loaded module with its buttons and the state machine; the PWM task
\* neither reads nor writes what the debounce test reads
NextIdle ==
    \/ button_irq_handler
    \/ led_level_func
    \/ LevelTrap
    \/ TickRun
    \/ TickIdle

SpecIdle == InitLoaded /\ [][NextIdle]_vars

\* --------------------------------------- accepted edges and passes counted

\* the loaded module, from the first edge on with the count of owed kept
InitCount ==
    /\ pc = "loaded"
    /\ ret = 0
    /\ led_max_level \in 1 .. MaxLevelBound
    /\ pulse_frequency = PULSE_FREQUENCY_DEFAULT
    /\ gpios = {"down", "up", "led"}
    /\ irqs = Lines
    /\ led_gpio_value = LOW
    /\ now = BootTs
    /\ prev_down_button_irq = BootTs
    /\ prev_up_button_irq = BootTs
    /\ prev_led_switch = BootTs
    /\ led_level = LED_MIN_LEVEL
    /\ led_state = "OFF"
    /\ led_event = "NONE"
    /\ led_level_work = IdleWork
    /\ led_switch_work = schedule_work(IdleWork)
    /\ irq_pc = [l \in Lines |-> "idle"]
    /\ lvl = NoLvl
    /\ last_accept = [l \in Lines |-> [valid |-> TRUE, ts |-> BootTs]]
    /\ last_event = "NONE"
    /\ fresh = FALSE
    /\ run = NoRun
    /\ owed = NoneOwed

\* the buttons and the state machine (led_max_level >= 1, so no pass traps)
NextCount ==
    \/ button_irq_handler
    \/ led_level_func
    \/ TickRun

SpecCount == InitCount /\ [][NextCount]_vars

\* ------------------------------------------------ the level after a rest

\* the shortest rest whose seconds times USEC_PER_SEC an int cannot hold:
\* 2148 s, about 36 minutes
RestSec == (INT_MAX \div USEC_PER_SEC) + 1

\* the level rests for RestSec seconds
TickRest ==
    /\ \A l \in Lines : irq_pc[l] = "idle"
    /\ now.tv_sec < BootTs.tv_sec + RestSec
    /\ now' = Timespec(now.tv_sec + RestSec, now.tv_nsec)
    /\ UNCHANGED <<pc, ret, cfg_vars, res_vars, led_gpio_value, clk_vars, fsm_vars,
                   led_level_work, led_switch_work, irq_pc, lvl, hist_vars>>

\* the loaded module whose buttons are first pressed after the rest
NextRest ==
    \/ button_irq_handler
    \/ led_level_func
    \/ LevelTrap
    \/ led_ctrl_func
    \/ CtrlTrap
    \/ TickRest

SpecRest == InitLoaded /\ [][NextRest]_vars

\* ------------------------------------------ the workers scheduled fairly

\* the loaded module, the clock advancing a debounce window at a time
NextLive ==
    \/ button_irq_handler
    \/ led_level_func
    \/ LevelTrap
    \/ led_ctrl_func
    \/ CtrlTrap
    \/ Tick

\* the workqueue runs a pending item in the end, a worker that has started
\* a function gets on with it, and an interrupt handler runs to its end
SpecLive ==
    /\ InitLoaded
    /\ [][NextLive]_vars
    /\ WF_vars(CtrlStart)
    /\ WF_vars(CtrlRun)
    /\ WF_vars(LevelStart)
    /\ WF_vars(LevelDispatch)
    /\ WF_vars(LevelUpdate)
    /\ \A l \in Lines : WF_vars(IrqSched(l))

\* ------------------------------------------------------ the PWM task alone

\* values of the pulse_frequency parameter: the default, one that the level
\* does not divide, and a period of one second
PulseFrequencies == {PULSE_FREQUENCY_DEFAULT, 7, NSEC_PER_SEC}

\* a loaded module resting at some level: that many Increase edges were
\* accepted one debounce window apart, the last of them now, and the PWM
\* task has not run since pwm_led_init
InitPwm ==
    /\ pc = "loaded"
    /\ ret = 0
    /\ led_max_level \in 1 .. LED_MAX_LEVEL_DEFAULT
    /\ pulse_frequency \in PulseFrequencies
    /\ gpios = {"down", "up", "led"}
    /\ irqs = Lines
    /\ led_gpio_value = LOW
    /\ led_level \in LED_MIN_LEVEL .. led_max_level
    /\ now = TsAfter(BootTs, WindowNs, led_level)
    /\ prev_down_button_irq = BootTs
    /\ prev_up_button_irq = now
    /\ prev_led_switch = BootTs
    /\ led_state = update_led_state(led_level, led_max_level)
    /\ led_event = IF led_level = LED_MIN_LEVEL THEN "NONE" ELSE "UP"
    /\ led_level_work = IdleWork
    /\ led_switch_work = schedule_work(IdleWork)
    /\ irq_pc = [l \in Lines |-> "idle"]
    /\ lvl = NoLvl
    /\ last_accept = [l \in Lines |->
                        [valid |-> TRUE,
                         ts |-> IF l = "up" THEN now ELSE BootTs]]
    /\ last_event = led_event
    /\ owed = NotCounted
    /\ fresh = FALSE
    /\ run = [kind |-> "up", n |-> led_level, p |-> led_level]

TickPwm ==
    /\ ~TsGeq(now, TsAfter(prev_up_button_irq, PwmTickNs, MaxPwmTicks))
    /\ now' = timespec64_add_ns(now, PwmTickNs)
    /\ UNCHANGED <<pc, ret, cfg_vars, res_vars, led_gpio_value, clk_vars, fsm_vars,
                   led_level_work, led_switch_work, irq_pc, lvl, hist_vars>>

NextPwm == led_ctrl_func \/ TickPwm

SpecPwm == InitPwm /\ [][NextPwm]_vars

\* ------------------------------------------------------------------- claims

Min(a, b) == IF a <= b THEN a ELSE b
Max(a, b) == IF a >= b THEN a ELSE b

\* the state machine is at rest and has run once for each edge of the run
RunServed ==
    /\ run.kind # "none"
    /\ run.p = run.n
    /\ led_level_work.pc = "idle"

\* C1: with a maximum level of at least 1, led_level is within
\* [0, led_max_level] in every reachable state, whatever the interleaving of
\* edges, passes, PWM iterations, initialization and teardown.
LevelInRange ==
    led_max_level >= 1 =>
        (led_level >= LED_MIN_LEVEL /\ led_level <= led_max_level)

\* a pass has just looked up Increase in state Max and called do_nothing
LevelInRangeWitness ==
    /\ led_max_level >= 1
    /\ led_level_work.pc = "update"
    /\ lvl.state = "MAX"
    /\ lvl.event = "UP"
    /\ lvl.fn = "do_nothing"
    /\ led_level = led_max_level

\* C2: with a maximum level of 0 (given as 0, or clamped from a negative
\* value), no accepted edge ever changes led_level: it stays 0.
ZeroMaxLevelInert ==
    (pc # "validate" /\ led_max_level = 0) => led_level = LED_MIN_LEVEL

\* C3: a run of N Increase edges from level 0 and state Off, each processed
\* by its own pass, ends at level min(N, MaxLevel), in state Max once
\* N >= MaxLevel; a run of N Decrease edges from level MaxLevel ends at
\* max(MaxLevel - N, 0), in state Off once N >= MaxLevel.
Saturation ==
    (led_max_level >= 1 /\ RunServed) =>
        IF run.kind = "up"
          THEN /\ led_level = Min(run.n, led_max_level)
               /\ run.n >= led_max_level => led_state = "MAX"
          ELSE /\ led_level = Max(led_max_level - run.n, LED_MIN_LEVEL)
               /\ run.n >= led_max_level => led_state = "OFF"

\* more Decrease edges than there are levels have been processed one by one,
\* starting at the maximum level
SaturationWitness ==
    /\ led_max_level >= 1
    /\ RunServed
    /\ run.kind = "down"
    /\ run.n > led_max_level
    /\ led_level = LED_MIN_LEVEL
    /\ led_state = "OFF"

\* the debounce window has elapsed on the clock since line l's clock was set
WindowElapsed(l) == TsGeq(now, timespec64_add_ns(last_accept[l].ts, WindowNs))

\* C4: an edge on a line whose clock has been set is accepted if and only if
\* at least the debounce window (200 ms, boundary included) has elapsed since
\* that line's clock was set, and is rejected otherwise: button_irq_handler
\* can accept an edge exactly when the window has elapsed and can reject one
\* exactly when it has not.
DebounceWindow ==
    \A l \in Lines :
        (l \in irqs /\ irq_pc[l] = "idle" /\ last_accept[l].valid) =>
            /\ MayAccept(l) <=> WindowElapsed(l)
            /\ MayReject(l) <=> ~WindowElapsed(l)

\* C5: the edges accepted before a pass of led_level_func starts are served
\* by that one pass: every pass in progress started after an edge that no
\* earlier pass started after (two edges accepted before the worker runs do
\* not get two passes), and it applies the event of the edge accepted last.
Coalescing ==
    led_level_work.pc \in {"dispatch", "update"} =>
        /\ lvl.fresh
        /\ led_level_work.pc = "update" => lvl.event = lvl.latest

\* C6: an iteration of led_ctrl_func that reads level 0 writes LOW, one that
\* reads level led_max_level >= 1 writes HIGH; both leave prev_led_switch
\* alone and resubmit the work item.
PwmBoundaries ==
    [][(led_switch_work.pc = "run" /\ led_switch_work'.pc = "idle") =>
         /\ led_level = LED_MIN_LEVEL =>
               /\ led_gpio_value' = LOW
               /\ prev_led_switch' = prev_led_switch
               /\ led_switch_work'.pending
         /\ (led_max_level >= 1 /\ led_level = led_max_level) =>
               /\ led_gpio_value' = HIGH
               /\ prev_led_switch' = prev_led_switch
               /\ led_switch_work'.pending]_vars

\* the output is HIGH at the maximum level although the PWM has never
\* flipped it: an iteration at the boundary wrote it, and resubmitted
PwmBoundariesWitness ==
    /\ led_max_level >= 1
    /\ led_level = led_max_level
    /\ led_gpio_value = HIGH
    /\ prev_led_switch = BootTs
    /\ led_switch_work.pc = "idle"
    /\ led_switch_work.pending

\* period * level / max with truncation, in unbounded integers
ExactScaled(period, level, max) ==
    ((period \div max) * level) + (((period % max) * level) \div max)

\* C7: for 0 < level < led_max_level the HIGH dwell is
\* pulse_frequency * level / led_max_level truncated, the LOW dwell is
\* pulse_frequency minus that, and the two sum to pulse_frequency; for
\* led_max_level 5, level 2 and period 100000 they are 40000 and 60000.
DwellComputation ==
    (LED_MIN_LEVEL < led_level /\ led_level < led_max_level) =>
        LET hi == required_delay(HIGH, pulse_frequency, led_level, led_max_level)
            lo == required_delay(LOW, pulse_frequency, led_level, led_max_level)
            exact == ExactScaled(pulse_frequency, led_level, led_max_level)
        IN  /\ hi = exact
            /\ lo = pulse_frequency - exact
            /\ hi + lo = pulse_frequency
            /\ (led_max_level = LED_MAX_LEVEL_DEFAULT /\ led_level = 2
                   /\ pulse_frequency = PULSE_FREQUENCY_DEFAULT) =>
                  (hi = 40000 /\ lo = 60000)

\* C8: once pwm_led_exit has released the lines, led_level_work is neither
\* pending nor running.
LevelWorkGoneAfterExit ==
    pc = "unloaded" => (~led_level_work.pending /\ led_level_work.pc = "idle")

\* C9: once cancel_work_sync(&led_switch_work) has returned, led_switch_work
\* is neither pending nor running, so led_ctrl_func does not run and the
\* output is not written again, in particular not after gpio_free.
PwmDrained ==
    pc \in {"free_down", "free_up", "unset", "unloaded"} =>
        led_switch_work = IdleWork

\* the module is unloaded after the PWM task has driven the output HIGH
PwmDrainedWitness ==
    /\ pc = "unloaded"
    /\ led_gpio_value = HIGH
    /\ led_switch_work = IdleWork

\* C10: when pwm_led_init has failed it returns an error, no line is
\* requested and no interrupt registered any more, and the PWM task was
\* not started.
InitRollback ==
    pc = "failed" =>
        /\ ret # 0
        /\ gpios = {}
        /\ irqs = {}
        /\ led_switch_work = IdleWork

\* C11: a pass of led_level_func completes with every operation defined:
\* the worker never dies inside the function, and the percentage
\* 100 * level / led_max_level is never computed with led_max_level = 0.
PassCannotFail ==
    /\ led_level_work.pc # "oops"
    /\ led_level_work.pc = "update" => led_max_level # 0

\* C12: no event is looked up by more passes than edges were accepted with
\* it: the Increase edges accepted are never fewer than the passes that
\* applied or suppressed an increment, and likewise for Decrease.
NoEventAppliedTwice ==
    owed.on => (owed["UP"] >= 0 /\ owed["DOWN"] >= 0)

\* the interval diff is at least d nanoseconds, in unbounded integers
ElapsedAtLeast(diff, d) ==
    \/ d <= 0
    \/ diff.tv_sec > d \div NSEC_PER_SEC
    \/ diff.tv_sec = d \div NSEC_PER_SEC /\ diff.tv_nsec >= d % NSEC_PER_SEC

\* C13: an iteration of led_ctrl_func with 0 < level < led_max_level
\* inverts the output and sets prev_led_switch to the current time exactly
\* when the time elapsed since prev_led_switch is at least the required
\* dwell for the present output value, and leaves both alone otherwise,
\* whatever the elapsed time.
FlipRule ==
    [][(/\ led_switch_work.pc = "run"
        /\ led_switch_work'.pc = "idle"
        /\ LED_MIN_LEVEL < led_level
        /\ led_level < led_max_level) =>
         IF ElapsedAtLeast(timespec64_sub(now, prev_led_switch),
                           required_delay(led_gpio_value, pulse_frequency,
                                          led_level, led_max_level))
           THEN led_gpio_value' = 1 - led_gpio_value /\ prev_led_switch' = now
           ELSE led_gpio_value' = led_gpio_value
                /\ prev_led_switch' = prev_led_switch]_vars

\* C14: in the loaded module a further iteration of led_ctrl_func always
\* eventually runs, under fair scheduling of the worker: every iteration
\* resubmits the work item, on every path.
PwmPerpetual == []<>(led_switch_work.pc = "run")

\* C15: every accepted edge is eventually followed by a pass of
\* led_level_func that starts after the edge was accepted, under fair
\* scheduling of the worker and without teardown.
EdgeServed == fresh ~> ~fresh

\* C16: with led_max_level >= 1, whenever no pass of led_level_func is in
\* progress, led_state is OFF iff led_level = 0, MAX iff led_level =
\* led_max_level, and ON otherwise.
StateAgreesWithLevel ==
    (led_max_level >= 1 /\ led_level_work.pc = "idle") =>
        /\ led_state = "OFF" <=> led_level = LED_MIN_LEVEL
        /\ led_state = "MAX" <=> led_level = led_max_level
        /\ led_state = "ON" <=>
              (led_level # LED_MIN_LEVEL /\ led_level # led_max_level)

\* a pass has completed at a level strictly between the two ends
StateAgreesWithLevelWitness ==
    /\ led_max_level >= 1
    /\ led_level_work.pc = "idle"
    /\ led_level > LED_MIN_LEVEL
    /\ led_level < led_max_level
    /\ led_state = "ON"

Actions == {"do_nothing", "increase_led_brightness", "decrease_led_brightness"}

\* C17: for every state and event the table gives one of no-op, +1 and -1:
\* no-op for NONE in every state, for DOWN in OFF and for UP in MAX, +1 for
\* every other UP and -1 for every other DOWN; so a pass, which calls what
\* the table gives for what it read, changes the level by at most 1.
TableTotal ==
    /\ \A st \in States, ev \in Events :
          LET fn == fsm_functions(st, ev)
          IN  /\ fn \in Actions
              /\ ev = "NONE" => fn = "do_nothing"
              /\ (st = "OFF" /\ ev = "DOWN") => fn = "do_nothing"
              /\ (st = "MAX" /\ ev = "UP") => fn = "do_nothing"
              /\ (st # "MAX" /\ ev = "UP") => fn = "increase_led_brightness"
              /\ (st # "OFF" /\ ev = "DOWN") => fn = "decrease_led_brightness"
              /\ \A level \in LED_MIN_LEVEL .. MaxLevelBound :
                    /\ apply_fn(fn, level) - level \in {-1, 0, 1}
                    /\ fn = "do_nothing" => apply_fn(fn, level) = level
                    /\ fn = "increase_led_brightness" =>
                          apply_fn(fn, level) = level + 1
                    /\ fn = "decrease_led_brightness" =>
                          apply_fn(fn, level) = level - 1
    /\ led_level_work.pc = "update" =>
          lvl.fn = fsm_functions(lvl.state, lvl.event)

\* a pass has looked up Decrease in state Off and called do_nothing
TableTotalWitness ==
    /\ led_level_work.pc = "update"
    /\ lvl.state = "OFF"
    /\ lvl.event = "DOWN"
    /\ lvl.fn = "do_nothing"
    /\ led_level = LED_MIN_LEVEL

\* C18: a rejected edge changes nothing: the step in which button_irq_handler
\* rejects an edge leaves both lines' clocks, led_event, led_level and
\* led_state as they were and does not schedule led_level_work.
RejectChangesNothing ==
    [][(owed.on /\ owed.verdict # "rejected" /\ owed'.verdict = "rejected") =>
         /\ prev_down_button_irq' = prev_down_button_irq
         /\ prev_up_button_irq' = prev_up_button_irq
         /\ led_event' = led_event
         /\ led_level' = led_level
         /\ led_state' = led_state
         /\ led_level_work' = led_level_work]_vars

\* an edge was accepted and its pass has run, and the next edge, less than
\* a debounce window later, was rejected: nothing is queued
RejectChangesNothingWitness ==
    /\ owed.on
    /\ owed.verdict = "rejected"
    /\ led_event = "UP"
    /\ owed["UP"] = 0
    /\ led_level = 1
    /\ ~led_level_work.pending
    /\ led_level_work.pc = "idle"
    /\ \E l \in Lines : ~WindowElapsed(l)

\* C19: led_level and led_state are written by a pass of led_level_func
\* only, never by button_irq_handler or led_ctrl_func; the step that accepts
\* an edge on one line sets that line's clock to the current time and
\* led_event to the line's event and leaves the other line's clock alone,
\* so an edge is accepted once its own line's window has elapsed, however
\* recently the other line accepted one.
SingleWriter ==
    [][/\ (led_level' # led_level \/ led_state' # led_state) =>
            /\ led_level_work.pc \in {"dispatch", "update"}
            /\ led_level_work'.pc # led_level_work.pc
            /\ irq_pc' = irq_pc
            /\ led_switch_work' = led_switch_work
       /\ \A l \in Lines :
            (irq_pc[l] = "idle" /\ irq_pc'[l] = "sched") =>
                /\ l = "up" =>
                      /\ prev_up_button_irq' = now
                      /\ prev_down_button_irq' = prev_down_button_irq
                      /\ led_event' = "UP"
                /\ l = "down" =>
                      /\ prev_down_button_irq' = now
                      /\ prev_up_button_irq' = prev_up_button_irq
                      /\ led_event' = "DOWN"
                /\ UNCHANGED <<led_level, led_state, led_gpio_value,
                               prev_led_switch, led_level_work,
                               led_switch_work>>
       /\ \A l \in Lines :
            (l \in irqs /\ irq_pc[l] = "idle" /\ WindowElapsed(l)) =>
                MayAccept(l)]_vars

\* the two lines have accepted an edge each, half a debounce window apart
SingleWriterWitness ==
    /\ prev_up_button_irq = TsAfter(BootTs, TickNs, 2)
    /\ prev_down_button_irq = TsAfter(BootTs, TickNs, 3)
    /\ led_event = "DOWN"
    /\ irq_pc["down"] = "sched"

\* C20: pwm_led_init sets each line's clock to the current time before an
\* edge on that line can be processed: while the thread of pwm_led_init is
\* still before the ktime_get_real_ts64 for a line's clock, no edge on that
\* line has been accepted.
ClocksSetBeforeEdges ==
    /\ pc \in {"irq_up", "irq_up_undo", "clock_down"} => irq_pc["down"] = "idle"
    /\ pc \in {"clock_down", "clock_up"} => irq_pc["up"] = "idle"

====
